---- MODULE Spec2Model ----
(***************************************************************************)
(* Model of contracts/cw1-subkeys/src/wallet.rs: Wallet(pub Vec<Coin>),    *)
(* its query has, normalize, and the operators +=Coin, +Coin, +=Wallet,    *)
(* +Wallet and -Coin.                                                      *)
(*                                                                         *)
(* A Coin is a record [denom, amount].  A denomination is a String; it is  *)
(* modelled as a finite sequence of character codes so that the code's     *)
(* String comparison (lexicographic, a proper prefix is smaller) is        *)
(* computed and not assumed.  An amount is a Uint128; it is modelled with  *)
(* the reduced range 0..AmtMax.  Vec indices are 1-based here, 0-based in  *)
(* the source; Option<usize> is 0 for None.                                *)
(*                                                                         *)
(* Uint128 addition is u128 addition: on overflow it panics in a build     *)
(* with overflow checks and wraps in a build without.  Both builds are     *)
(* modelled (variable build).  Uint128 subtraction returns a StdResult.    *)
(*                                                                         *)
(* Spec applies one operation to a constructed Wallet; SpecNormalize       *)
(* applies normalize, repeatedly, to any Vec<Coin>; SpecMerge adds two     *)
(* Wallets in both orders and normalizes both sums.                        *)
(***************************************************************************)
EXTENDS Integers, Sequences, FiniteSets, TLC

\* ------------------------------------------------------------------ bounds
\* largest value of the amount type (u128::MAX in the source)
AmtMax == 3
\* longest Vec<Coin> handed to Wallet(..) in Spec
MaxLen == 2
\* longest Vec<Coin> handed to Wallet(..) in SpecNormalize
MaxRun == 3
\* longest Vec<Coin> of the operands in SpecMerge
MaxMerge == 2

Modulus == AmtMax + 1
Amounts == 0..AmtMax

\* "A" < "AB" < "B" : character codes 1 = 'A', 2 = 'B'
Denoms == { <<1>>, <<1, 2>>, <<2>> }
\* the two denominations used by SpecMerge
MergeDenoms == { <<1>>, <<1, 2>> }

Coins == [denom : Denoms, amount : Amounts]
MergeCoins == [denom : MergeDenoms, amount : Amounts]

coin(a, d) == [denom |-> d, amount |-> a]

SeqsUpTo(S, n) == UNION { [1..k -> S] : k \in 0..n }

\* --------------------------------------------------- String comparison
Min(a, b) == IF a < b THEN a ELSE b

\* first position where the two strings differ, 0 if one is a prefix of the other
FirstDiff(a, b) ==
    LET D == { i \in 1..Min(Len(a), Len(b)) : a[i] # b[i] }
    IN  IF D = {} THEN 0 ELSE CHOOSE i \in D : \A j \in D : i <= j

\* a < b on Strings (Ord for str: lexicographic by bytes)
LexLess(a, b) ==
    LET i == FirstDiff(a, b)
    IN  IF i = 0 THEN Len(a) < Len(b) ELSE a[i] < b[i]

\* a >= b on Strings
LexGeq(a, b) == ~LexLess(a, b)

\* ------------------------------------------------------ Uint128 arithmetic
\* Uint128 + Uint128 is u128 + u128: it overflows when the sum exceeds the
\* maximum; the value below is the one a build without overflow checks keeps.
AmtAdd(a, b) == (a + b) % Modulus

AmtAddOverflows(a, b) == a + b > AmtMax

\* Uint128 - Uint128 : StdResult<Uint128>, underflow(minuend, subtrahend) when
\* the subtrahend is larger
AmtSub(a, b) ==
    IF b > a
    THEN [ok |-> FALSE, val |-> 0, minuend |-> a, subtrahend |-> b]
    ELSE [ok |-> TRUE, val |-> a - b, minuend |-> a, subtrahend |-> b]

\* ------------------------------------------------------------ Vec helpers
\* Vec::remove(i)
Remove(s, i) == [j \in 1..(Len(s) - 1) |-> IF j < i THEN s[j] ELSE s[j + 1]]

\* Vec::insert(i, c)
Insert(s, i, c) ==
    [j \in 1..(Len(s) + 1) |-> IF j < i THEN s[j] ELSE IF j = i THEN c ELSE s[j - 1]]

\* self.0[i].amount = a
SetAmount(s, i, a) == [s EXCEPT ![i] = [denom |-> s[i].denom, amount |-> a]]

\* ------------------------------------------------------------------ Wallet
\* Wallet::find : position of the first coin with this denom, 0 for None
find(w, denom) ==
    LET M == { i \in 1..Len(w) : w[i].denom = denom }
    IN  IF M = {} THEN 0 ELSE CHOOSE i \in M : \A j \in M : i <= j

\* variant: the comparison is the other way round (c.denom <= denom)
insert_pos_Flipped(w, denom) ==
    LET M == { i \in 1..Len(w) : LexGeq(denom, w[i].denom) }
    IN  IF M = {} THEN 0 ELSE CHOOSE i \in M : \A j \in M : i <= j

\* Wallet::insert_pos : position of the first coin whose denom >= denom, 0 for None
insert_pos(w, denom) ==
    LET M == { i \in 1..Len(w) : LexGeq(w[i].denom, denom) }
    IN  IF M = {} THEN 0 ELSE CHOOSE i \in M : \A j \in M : i <= j

\* Wallet::has
has(w, required) ==
    LET i == find(w, required.denom)
    IN  IF i = 0 THEN FALSE ELSE w[i].amount >= required.amount

\* variant: zero amounts are kept
Retain_KeepAll(w) == w

\* normalize, first pass: self.0.retain(|c| c.amount.u128() != 0)
IsNonZero(c) == c.amount # 0
Retain(w) == SelectSeq(w, IsNonZero)

\* variant: the sort is descending by denom
RECURSIVE SortOutcomes_Desc(_)
SortOutcomes_Desc(w) ==
    IF w = <<>> THEN { <<>> }
    ELSE LET Greatest == { i \in 1..Len(w) :
                             \A j \in 1..Len(w) : ~LexLess(w[i].denom, w[j].denom) }
         IN  UNION { { <<w[i]>> \o t : t \in SortOutcomes_Desc(Remove(w, i)) } : i \in Greatest }

\* normalize, second pass: sort_unstable_by denom.  The sort is not stable, so
\* every ordering of the coins that is ascending by denom is a possible result.
RECURSIVE SortOutcomes(_)
SortOutcomes(w) ==
    IF w = <<>> THEN { <<>> }
    ELSE LET Least == { i \in 1..Len(w) :
                          \A j \in 1..Len(w) : ~LexLess(w[j].denom, w[i].denom) }
         IN  UNION { { <<w[i]>> \o t : t \in SortOutcomes(Remove(w, i)) } : i \in Least }

\* normalize, third pass: the positions i with self[i-1].denom == self[i].denom
\* (filter_map over enumerate, ascending) ...
RECURSIVE DupsUpTo(_, _)
DupsUpTo(s, n) ==
    IF n < 2 THEN <<>>
    ELSE IF s[n].denom = s[n - 1].denom
         THEN Append(DupsUpTo(s, n - 1), n)
         ELSE DupsUpTo(s, n - 1)

\* ... then dups.reverse()
Reverse(s) == [i \in 1..Len(s) |-> s[Len(s) + 1 - i]]

\* variant: only the last duplicate is merged
Dups_LastOnly(s) ==
    LET ds == Reverse(DupsUpTo(s, Len(s)))
    IN  IF ds = <<>> THEN <<>> ELSE <<Head(ds)>>

Dups(s) == Reverse(DupsUpTo(s, Len(s)))

\* the loop over dups: self.0[dup-1].amount += self.0[dup].amount; remove(dup).
\* ovf records whether any of the additions overflowed.
RECURSIVE MergeDups(_, _, _)
MergeDups(s, dups, ovf) ==
    IF dups = <<>> THEN [coins |-> s, ovf |-> ovf]
    ELSE LET dup == Head(dups)
             add == s[dup].amount
         IN  MergeDups(Remove(SetAmount(s, dup - 1, AmtAdd(s[dup - 1].amount, add)), dup),
                       Tail(dups),
                       ovf \/ AmtAddOverflows(s[dup - 1].amount, add))

\* Wallet::normalize : the possible results, one per outcome of the sort
normalize(w) == { MergeDups(s, Dups(s), FALSE) : s \in SortOutcomes(Retain(w)) }

\* variant: the amount of a present denom is overwritten, not added to
add_assign_Overwrite(w, other) ==
    LET i == find(w, other.denom)
    IN  IF i # 0
        THEN [coins |-> SetAmount(w, i, other.amount), ovf |-> FALSE]
        ELSE LET idx == insert_pos(w, other.denom)
             IN  [coins |-> IF idx # 0 THEN Insert(w, idx, other) ELSE Append(w, other),
                  ovf   |-> FALSE]

\* impl AddAssign<Coin> for Wallet
add_assign(w, other) ==
    LET i == find(w, other.denom)
    IN  IF i # 0
        THEN [coins |-> SetAmount(w, i, AmtAdd(w[i].amount, other.amount)),
              ovf   |-> AmtAddOverflows(w[i].amount, other.amount)]
        ELSE LET idx == insert_pos(w, other.denom)
             IN  [coins |-> IF idx # 0 THEN Insert(w, idx, other) ELSE Append(w, other),
                  ovf   |-> FALSE]

\* impl AddAssign<Wallet> for Wallet : add_assign of every coin of other, in order
RECURSIVE add_assign_wallet(_, _, _)
add_assign_wallet(w, other, ovf) ==
    IF other = <<>> THEN [coins |-> w, ovf |-> ovf]
    ELSE LET r == add_assign(w, Head(other))
         IN  add_assign_wallet(r.coins, Tail(other), ovf \/ r.ovf)

\* impl Sub<Coin> for Wallet : StdResult<Wallet>.  value is the Option of the
\* returned Wallet (<<>> on Err); kind/minuend/subtrahend are the StdError.
Ok(w) == [tag |-> "Ok", value |-> <<w>>, kind |-> "", minuend |-> 0, subtrahend |-> 0]

\* underflow(minuend, subtrahend)
Underflow(minuend, subtrahend) ==
    [tag |-> "Err", value |-> <<>>, kind |-> "Underflow",
     minuend |-> minuend, subtrahend |-> subtrahend]

\* variant: subtracting from an absent denom returns the wallet as it is
sub_AbsentOk(w, other) ==
    LET i == find(w, other.denom)
    IN  IF i # 0
        THEN LET r == AmtSub(w[i].amount, other.amount)
             IN  IF ~r.ok THEN Underflow(r.minuend, r.subtrahend)
                 ELSE IF r.val = 0 THEN Ok(Remove(w, i))
                 ELSE Ok(SetAmount(w, i, r.val))
        ELSE Ok(w)

\* variant: an entry that reaches zero is kept
sub_KeepZero(w, other) ==
    LET i == find(w, other.denom)
    IN  IF i # 0
        THEN LET r == AmtSub(w[i].amount, other.amount)
             IN  IF ~r.ok THEN Underflow(r.minuend, r.subtrahend)
                 ELSE Ok(SetAmount(w, i, r.val))
        ELSE Underflow(0, other.amount)

sub(w, other) ==
    LET i == find(w, other.denom)
    IN  IF i # 0
        THEN LET r == AmtSub(w[i].amount, other.amount)
             IN  IF ~r.ok THEN Underflow(r.minuend, r.subtrahend)
                 ELSE IF r.val = 0 THEN Ok(Remove(w, i))
                 ELSE Ok(SetAmount(w, i, r.val))
        ELSE Underflow(0, other.amount)

\* normalized: sorted by denom, no 0 elements, no duplicate denoms
Canonical(w) ==
    /\ \A i \in 1..Len(w) : w[i].amount # 0
    /\ \A i, j \in 1..Len(w) : i # j => w[i].denom # w[j].denom
    /\ \A i \in 1..(Len(w) - 1) : LexLess(w[i].denom, w[i + 1].denom)

\* ------------------------------------------------------------ amount sums
RECURSIVE Total(_, _)
\* the sum of the amounts of the entries of s with denomination d
Total(s, d) ==
    IF s = <<>> THEN 0
    ELSE (IF Head(s).denom = d THEN Head(s).amount ELSE 0) + Total(Tail(s), d)

\* every per-denomination sum is within the amount type's range
InRange(s) == \A d \in Denoms : Total(s, d) <= AmtMax

\* ----------------------------------------------------------- state machine
VARIABLES
    build,   \* "checked": u128 overflow panics; "wrapping": it wraps (overflow-checks off)
    wallet,  \* the Wallet the caller holds
    pre,     \* the Wallet before the last operation
    op,      \* the last operation
    arg,     \* its argument: <<coin>>, or the coins of the other Wallet
    result,  \* what it returned
    twin     \* SpecMerge only: the second Wallet

vars == <<build, wallet, pre, op, arg, result, twin>>

Builds == { "checked", "wrapping" }

Res(tag, value, flag, kind, minuend, subtrahend) ==
    [tag |-> tag, value |-> value, flag |-> flag, kind |-> kind,
     minuend |-> minuend, subtrahend |-> subtrahend]

Unit == Res("unit", <<>>, FALSE, "", 0, 0)
Panic == Res("panic", <<>>, FALSE, "", 0, 0)

\* a u128 overflow aborts the call in a checked build
Panics(ovf) == ovf /\ build = "checked"

Running == result.tag # "panic"

\* Wallet(vec) in either build: the tuple struct's field is pub, so any
\* Vec<Coin> makes a Wallet
New(s) ==
    /\ build \in Builds
    /\ wallet = s
    /\ pre = s
    /\ op = "new"
    /\ arg = <<>>
    /\ result = Unit
    /\ twin = <<>>

\* the Wallets of Spec: every Vec<Coin> up to MaxLen, and every normalized Wallet
Wallets == SeqsUpTo(Coins, MaxLen) \cup { w \in SeqsUpTo(Coins, Cardinality(Denoms)) : Canonical(w) }

Init == \E s \in Wallets : New(s)

\* one operation is applied to each constructed Wallet
Fresh == op = "new"

\* wallet.has(&required)
Has ==
    /\ Fresh
    /\ \E required \in Coins :
         /\ result' = Res("bool", <<>>, has(wallet, required), "", 0, 0)
         /\ arg' = <<required>>
    /\ pre' = wallet
    /\ op' = "has"
    /\ UNCHANGED <<build, wallet, twin>>

\* wallet.normalize()
NormalizeWallet ==
    /\ Running
    /\ \E r \in normalize(wallet) :
         IF Panics(r.ovf)
         THEN result' = Panic /\ wallet' = wallet
         ELSE result' = Unit /\ wallet' = r.coins
    /\ pre' = wallet
    /\ op' = "normalize"
    /\ arg' = <<>>
    /\ UNCHANGED <<build, twin>>

Normalize == Fresh /\ NormalizeWallet

\* wallet += other  and  wallet = wallet + other  (Add<Coin> is += then self)
AddCoin ==
    /\ Fresh
    /\ \E other \in Coins :
         LET r == add_assign(wallet, other)
         IN  /\ IF Panics(r.ovf)
                THEN result' = Panic /\ wallet' = wallet
                ELSE result' = Unit /\ wallet' = r.coins
             /\ arg' = <<other>>
    /\ pre' = wallet
    /\ op' = "add"
    /\ UNCHANGED <<build, twin>>

\* wallet.clone() - other : on Ok the caller goes on with the returned Wallet,
\* on Err nothing is returned and the caller keeps the Wallet it cloned
SubCoin ==
    /\ Fresh
    /\ \E other \in Coins :
         LET r == sub(wallet, other)
         IN  /\ result' = Res(r.tag, r.value, FALSE, r.kind, r.minuend, r.subtrahend)
             /\ wallet' = IF r.tag = "Ok" THEN r.value[1] ELSE wallet
             /\ arg' = <<other>>
    /\ pre' = wallet
    /\ op' = "sub"
    /\ UNCHANGED <<build, twin>>

Next == Has \/ Normalize \/ AddCoin \/ SubCoin

Spec == Init /\ [][Next]_vars

\* ------------------------------------------------- normalize on any input
InitNormalize == \E s \in SeqsUpTo(Coins, MaxRun) : New(s)

\* normalize() may be called again on its own result
NextNormalize == NormalizeWallet

SpecNormalize == InitNormalize /\ [][NextNormalize]_vars

\* ---------------------------------------------- merge in both directions
\* a = Wallet(..), b = Wallet(..), with the sums of a and b together in range
InitMerge ==
    /\ build \in Builds
    /\ wallet \in SeqsUpTo(MergeCoins, MaxMerge)
    /\ twin \in SeqsUpTo(MergeCoins, MaxMerge)
    /\ InRange(wallet \o twin)
    /\ pre = wallet
    /\ arg = twin
    /\ op = "new"
    /\ result = Unit

\* a.clone() + b.clone()  and  b + a
Merge ==
    /\ op = "new"
    /\ LET ab == add_assign_wallet(wallet, twin, FALSE)
           ba == add_assign_wallet(twin, wallet, FALSE)
       IN  IF Panics(ab.ovf \/ ba.ovf)
           THEN result' = Panic /\ UNCHANGED <<wallet, twin>>
           ELSE result' = Unit /\ wallet' = ab.coins /\ twin' = ba.coins
    /\ op' = "merge"
    /\ UNCHANGED <<build, pre, arg>>

\* normalize() on both sums
NormalizeBoth ==
    /\ op = "merge"
    /\ Running
    /\ \E x \in normalize(wallet), y \in normalize(twin) :
         IF Panics(x.ovf \/ y.ovf)
         THEN result' = Panic /\ UNCHANGED <<wallet, twin>>
         ELSE result' = Unit /\ wallet' = x.coins /\ twin' = y.coins
    /\ op' = "normalized"
    /\ UNCHANGED <<build, pre, arg>>

NextMerge == Merge \/ NormalizeBoth

SpecMerge == InitMerge /\ [][NextMerge]_vars

\* ================================================================ properties
\* vocabulary of the properties (mathematical integers, no wrap-around)
\* the positions of the entries of s with denomination d
Entries(s, d) == { i \in 1..Len(s) : s[i].denom = d }

\* s without its i-th entry, and s with c put before its i-th entry
Without(s, i) == SubSeq(s, 1, i - 1) \o SubSeq(s, i + 1, Len(s))
WithBefore(s, i, c) == SubSeq(s, 1, i - 1) \o <<c>> \o SubSeq(s, i, Len(s))

\* the coin the last operation was given
TheCoin == arg[1]

\* the position of the only entry of the canonical pre for the coin's denomination
ThePos == CHOOSE i \in Entries(pre, TheCoin.denom) : TRUE

\* ---------------------------------------------------------------------- C1
\* C1 (as stated): for every canonical W and every coin c, of any amount,
\* W + c is returned and is canonical.
C1_AddKeepsCanonical ==
    (op = "add" /\ Canonical(pre)) => (result.tag = "unit" /\ Canonical(wallet))

\* ---------------------------------------------------------------------- C2
\* C2 (as stated): for every canonical W and every O (any order, repeated
\* denominations, any amounts), W += O leaves W canonical.
C2_MergeKeepsCanonical ==
    (op = "merge" /\ Canonical(pre)) => (result.tag = "unit" /\ Canonical(wallet))

\* ---------------------------------------------------------------------- C3
\* C3: for every input sequence whose per-denomination sums are within range,
\* normalize() returns and leaves the collection canonical: no zero amount, no
\* repeated denomination, strictly ascending by denomination.
C3_NormalizeCanonical ==
    (op = "normalize" /\ InRange(pre)) => (result.tag = "unit" /\ Canonical(wallet))

\* a normalize of an in-range input of three entries that holds a zero, repeats
\* a denomination and is out of order
C3_Witness ==
    /\ op = "normalize" /\ InRange(pre) /\ result.tag = "unit"
    /\ Len(pre) = 3 /\ Len(wallet) = 1
    /\ \E i \in 1..3 : pre[i].amount = 0
    /\ \E i, j \in 1..3 : i < j /\ pre[i].denom = pre[j].denom /\ pre[i].amount # 0 /\ pre[j].amount # 0
    /\ \E i \in 1..2 : LexLess(pre[i + 1].denom, pre[i].denom)

\* ---------------------------------------------------------------------- C4
\* C4 (as stated): for every input sequence and every denomination d, normalize
\* returns; if the sum of d's amounts is nonzero the output holds exactly one
\* entry for d, with that sum; if it is zero d is absent.
TotalsKept ==
    /\ result.tag = "unit"
    /\ \A d \in Denoms :
         IF Total(pre, d) # 0
         THEN /\ Cardinality(Entries(wallet, d)) = 1
              /\ \A i \in Entries(wallet, d) : wallet[i].amount = Total(pre, d)
         ELSE Entries(wallet, d) = {}

C4_NormalizeKeepsTotals == op = "normalize" => TotalsKept

\* C4 (amended): the same, for every input sequence whose per-denomination
\* sums are within the amount type's range.
C4_NormalizeKeepsTotalsInRange == (op = "normalize" /\ InRange(pre)) => TotalsKept

\* a normalize of three nonzero entries of one denomination
C4_Witness ==
    /\ op = "normalize" /\ InRange(pre) /\ result.tag = "unit"
    /\ Len(pre) = 3 /\ Len(wallet) = 1
    /\ \A i \in 1..3 : pre[i].denom = pre[1].denom /\ pre[i].amount # 0

\* ---------------------------------------------------------------------- C5
\* C5: for every canonical W and coin (d, x), if W has no entry for d or its
\* entry holds less than x, then W - (d, x) is Err(Underflow) carrying x, no
\* collection is returned, and the caller's collection is untouched.
C5_SubUnderflow ==
    (/\ op = "sub" /\ Canonical(pre)
     /\ \A i \in Entries(pre, TheCoin.denom) : pre[i].amount < TheCoin.amount)
    => /\ result.tag = "Err"
       /\ result.kind = "Underflow"
       /\ result.subtrahend = TheCoin.amount
       /\ result.value = <<>>
       /\ wallet = pre

\* one subtraction from an absent denomination (of amount 0, even) ...
C5_WitnessAbsent ==
    /\ op = "sub" /\ Canonical(pre) /\ Len(pre) = 2
    /\ Entries(pre, TheCoin.denom) = {} /\ TheCoin.amount = 0
    /\ result.tag = "Err"

\* ... and one of more than is held
C5_Witness ==
    /\ op = "sub" /\ Canonical(pre) /\ Len(pre) = 3
    /\ \E i \in Entries(pre, TheCoin.denom) : pre[i].amount < TheCoin.amount
    /\ result.tag = "Err"

\* ---------------------------------------------------------------------- C6
\* C6: for every canonical W holding h for d and every x <= h, W - (d, x) is Ok
\* with a canonical collection: d's entry holds h - x when x < h and is gone
\* when x = h, every other entry is unchanged and in the same order.
C6_SubExact ==
    (/\ op = "sub" /\ Canonical(pre)
     /\ \E i \in Entries(pre, TheCoin.denom) : TheCoin.amount <= pre[i].amount)
    => /\ result.tag = "Ok"
       /\ Len(result.value) = 1
       /\ Canonical(result.value[1])
       /\ wallet = result.value[1]
       /\ LET h == pre[ThePos].amount
              x == TheCoin.amount
          IN  IF x < h
              THEN wallet = [j \in 1..Len(pre) |->
                               IF j = ThePos THEN coin(h - x, TheCoin.denom) ELSE pre[j]]
              ELSE wallet = Without(pre, ThePos)

\* the whole middle entry of three is subtracted
C6_Witness ==
    /\ op = "sub" /\ Canonical(pre) /\ Len(pre) = 3
    /\ pre[2].denom = TheCoin.denom /\ pre[2].amount = TheCoin.amount
    /\ result.tag = "Ok" /\ Len(wallet) = 2

\* a part of an entry is subtracted
C6_WitnessPart ==
    /\ op = "sub" /\ Canonical(pre)
    /\ \E i \in Entries(pre, TheCoin.denom) : 0 < TheCoin.amount /\ TheCoin.amount < pre[i].amount
    /\ result.tag = "Ok" /\ Len(wallet) = Len(pre)

\* ---------------------------------------------------------------------- C7
\* what C7 says W + (d, a) is, for the canonical W = pre
AddExpected ==
    IF Entries(pre, TheCoin.denom) # {}
    THEN [j \in 1..Len(pre) |->
            IF j = ThePos
            THEN coin(pre[j].amount + TheCoin.amount, TheCoin.denom)
            ELSE pre[j]]
    ELSE LET G == { i \in 1..Len(pre) : ~LexLess(pre[i].denom, TheCoin.denom) }
             at == IF G = {} THEN Len(pre) + 1 ELSE CHOOSE i \in G : \A j \in G : i <= j
         IN  WithBefore(pre, at, TheCoin)

\* C7 (as stated): for every canonical W and coin (d, a), W + (d, a) is W with
\* d's amount replaced by old amount + a when d is present, and W with (d, a)
\* put before the first entry whose denomination is >= d (appended if none)
\* when d is absent.
C7_AddExact ==
    (op = "add" /\ Canonical(pre)) => (result.tag = "unit" /\ wallet = AddExpected)

\* C7 (amended): the same, provided old amount + a is within the amount type's
\* range when d is present.
C7_AddExactInRange ==
    (op = "add" /\ Canonical(pre) /\ Total(pre, TheCoin.denom) + TheCoin.amount <= AmtMax)
    => (result.tag = "unit" /\ wallet = AddExpected)

\* "AB" is put between "A" and "B"
C7_Witness ==
    /\ op = "add" /\ Canonical(pre) /\ Len(pre) = 2 /\ result.tag = "unit"
    /\ LexLess(pre[1].denom, TheCoin.denom) /\ LexLess(TheCoin.denom, pre[2].denom)
    /\ Len(wallet) = 3 /\ wallet[2] = TheCoin

\* an amount is added to a present denomination
C7_WitnessPresent ==
    /\ op = "add" /\ Canonical(pre) /\ result.tag = "unit"
    /\ Entries(pre, TheCoin.denom) # {} /\ TheCoin.amount > 0
    /\ Total(pre, TheCoin.denom) + TheCoin.amount <= AmtMax

\* ---------------------------------------------------------------------- C8
\* C8 (as stated): for every collection, canonical or not, has(d, a) is true
\* iff some entry has denomination d and amount >= a, and the collection is
\* unchanged.
C8_HasIffEntry ==
    op = "has" =>
        /\ result.tag = "bool"
        /\ result.flag <=> (\E i \in Entries(pre, TheCoin.denom) : pre[i].amount >= TheCoin.amount)
        /\ wallet = pre

\* ---------------------------------------------------------------------- C9
\* C9: for all A and B, canonical or not, whose per-denomination sums over
\* both are within range, normalize(A + B) and normalize(B + A) return the
\* same sequence of entries.
C9_MergeCommutes ==
    (op = "normalized" /\ InRange(pre \o arg)) => (result.tag = "unit" /\ wallet = twin)

\* two different non-canonical operands of two entries each, two entries left
C9_Witness ==
    /\ op = "normalized" /\ InRange(pre \o arg) /\ result.tag = "unit"
    /\ Len(pre) = 2 /\ Len(arg) = 2 /\ pre # arg
    /\ ~Canonical(pre) /\ ~Canonical(arg)
    /\ Len(wallet) = 2 /\ wallet = twin

====
